---- MODULE Spec2Model ----
(***************************************************************************)
(* THOR web datalogger: the stream reassembly and stateful line parser of  *)
(* the BLE wrapper (ble_data_logger_wrapper.py) and of the SWO logger      *)
(* (swo_data_logger.py).                                                   *)
(*                                                                         *)
(* Representation of Python values:                                        *)
(*   str            a TLA+ string                                          *)
(*   bytes          a TLA+ string over the ASCII characters plus the two   *)
(*                  characters ByteLead and ByteCont, which stand for the  *)
(*                  bytes 0xC3 and 0xA9 (the UTF-8 encoding of U+00E9);    *)
(*                  the decoded character U+00E9 is written CharE9         *)
(*   None / str     None is << >>, the str s is << s >>                    *)
(*   list           a sequence                                             *)
(*   dict           a function from the keys present to their values, so   *)
(*                  {} is the function with the empty domain               *)
(*   float          [m |-> mantissa, e |-> decimal digits], value m/10^e,  *)
(*                  with no trailing zero digit in the fraction            *)
(*   tuple (i, v)   << i, v >>                                             *)
(***************************************************************************)
EXTENDS Integers, Sequences, FiniteSets, TLC

VARIABLES
    channel,    \* which program runs: "ble" or "swo"
    pc,         \* position of main: "running", or "done" once main has returned;
                \* "raised" would be main left by an exception, which no except
                \* clause of either program allows
    state,      \* parser state (context['state'] in BLE, state in SWO)
    data,       \* in-progress record (context['data'] in BLE, data in SWO)
    rx_buffer,  \* BLE reassembly buffer (module global)
    user_input, \* BLE: last line read from stdin by the command loop
    run_saved,  \* a record was written out since the last 'Device Name:' line
    sink_log,   \* all records written out, in order (recorded for scripted streams)
    stream,     \* the scripted stream the source delivers: bytes (BLE) or text (SWO)
    pending,    \* the part of stream not yet delivered
    calls,      \* lines passed to parse_line so far (recorded for scripted streams)
    received,   \* BLE: the text of the chunks decoded so far (recorded for
                \* scripted streams)
    runs,       \* BLE: the runs opened so far, each with the name of its
                \* 'Device Name:' line and the samples parse_line accepted during
                \* it (recorded for the conservation specification)
    loop,       \* BLE: the asyncio event loop: what holds its thread, the
                \* notifications waiting for it, the await main is suspended at,
                \* the writes of the sink in progress and the number of
                \* notification_handler calls begun and not yet returned
    last        \* the last step: its kind, the line parsed, the state and record
                \* before it, the exception it ended with and the records the
                \* sink wrote out during it

vars == << channel, pc, state, data, rx_buffer, user_input, run_saved, sink_log,
          stream, pending, calls, received, loop, runs, last >>

(***************************************************************************)
(* Bounds of the model.                                                    *)
(***************************************************************************)
MaxSamples == 2     \* longest output_data explored
MaxSteps == 2       \* longest voltage_steps explored
MaxChunk == 3       \* longest fragment fed for a scripted stream
MaxQueue == 2       \* most notifications waiting for the event loop
MaxRuns == 2        \* most runs opened in the conservation specification

(***************************************************************************)
(* Python str operations.                                                  *)
(***************************************************************************)
Whitespace == {" ", "\t", "\r", "\n"}

CharAt(s, i) == SubSeq(s, i, i)

\* s.startswith(p)
StartsWith(s, p) == Len(s) >= Len(p) /\ SubSeq(s, 1, Len(p)) = p

\* s.find(sub) counted from 1: the first position at or after i where sub
\* occurs in s, 0 when there is none
RECURSIVE FindFrom(_, _, _)
FindFrom(s, sub, i) ==
    IF i + Len(sub) - 1 > Len(s) THEN 0
    ELSE IF SubSeq(s, i, i + Len(sub) - 1) = sub THEN i
    ELSE FindFrom(s, sub, i + 1)

Find(s, sub) == FindFrom(s, sub, 1)

\* sub in s
Contains(s, sub) == Find(s, sub) # 0

\* s.lstrip()
RECURSIVE LStrip(_)
LStrip(s) ==
    IF s # "" /\ CharAt(s, 1) \in Whitespace THEN LStrip(SubSeq(s, 2, Len(s))) ELSE s

\* s.rstrip()
RECURSIVE RStrip(_)
RStrip(s) ==
    IF s # "" /\ CharAt(s, Len(s)) \in Whitespace
    THEN RStrip(SubSeq(s, 1, Len(s) - 1))
    ELSE s

\* s.strip()
Strip(s) == LStrip(RStrip(s))

\* s.split(sep, 1)
SplitOnce(s, sep) ==
    LET i == Find(s, sep)
    IN  IF i # 0
        THEN << SubSeq(s, 1, i - 1), SubSeq(s, i + Len(sep), Len(s)) >>
        ELSE << s >>

\* s.split(sep)
RECURSIVE Split(_, _)
Split(s, sep) ==
    LET p == SplitOnce(s, sep)
    IN  IF Len(p) = 2 THEN << p[1] >> \o Split(p[2], sep) ELSE p

Digits == "0123456789"

IsDigit(c) == Len(c) = 1 /\ Contains(Digits, c)

AllDigits(s) == \A i \in 1..Len(s) : IsDigit(CharAt(s, i))

DigitVal(c) == Find(Digits, c) - 1

RECURSIVE DecValue(_)
DecValue(s) ==
    IF s = "" THEN 0
    ELSE DecValue(SubSeq(s, 1, Len(s) - 1)) * 10 + DigitVal(CharAt(s, Len(s)))

RECURSIVE DropTrailingZeros(_)
DropTrailingZeros(s) ==
    IF s # "" /\ CharAt(s, Len(s)) = "0"
    THEN DropTrailingZeros(SubSeq(s, 1, Len(s) - 1))
    ELSE s

Signed(s) == s # "" /\ CharAt(s, 1) \in {"+", "-"}

Unsigned(s) == IF Signed(s) THEN SubSeq(s, 2, Len(s)) ELSE s

SignOf(s) == IF Signed(s) /\ CharAt(s, 1) = "-" THEN -1 ELSE 1

\* int(s): ok = FALSE stands for ValueError.  Decimal literals with an
\* optional sign and surrounding whitespace; underscore grouping is not part
\* of the input alphabet.
ParseInt(s) ==
    LET t == Strip(s)
        body == Unsigned(t)
    IN  IF body # "" /\ AllDigits(body)
        THEN [ok |-> TRUE, val |-> SignOf(t) * DecValue(body)]
        ELSE [ok |-> FALSE, val |-> 0]

\* float(s): ok = FALSE stands for ValueError.  Decimal literals with an
\* optional sign, an optional fraction and surrounding whitespace; exponents,
\* inf, nan and underscore grouping are not part of the input alphabet.
ParseFloat(s) ==
    LET t == Strip(s)
        body == Unsigned(t)
        parts == SplitOnce(body, ".")
        ip == parts[1]
        fp == IF Len(parts) = 2 THEN parts[2] ELSE ""
        frac == DropTrailingZeros(fp)
    IN  IF AllDigits(ip) /\ AllDigits(fp) /\ (ip # "" \/ fp # "")
        THEN [ok |-> TRUE,
              val |-> [m |-> SignOf(t) * DecValue(ip \o frac), e |-> Len(frac)]]
        ELSE [ok |-> FALSE, val |-> [m |-> 0, e |-> 0]]

(***************************************************************************)
(* Python dict operations on the record.                                   *)
(***************************************************************************)
None == << >>

EmptyDict == [k \in {} |-> << >>]

\* the dict built by data.clear(); data.update({...})
NewRecord(name) ==
    [device_name |-> name, params |-> [k \in {} |-> ""],
     voltage_steps |-> << >>, output_data |-> << >>]

\* bool(data.get('device_name'))
HasDeviceName(d) ==
    "device_name" \in DOMAIN d /\ d["device_name"] # None /\ d["device_name"] # << "" >>

\* bool(data.get('output_data'))
HasOutputData(d) == "output_data" \in DOMAIN d /\ d["output_data"] # << >>

\* d[key] = value
SetItem(d, key, value) ==
    [k \in DOMAIN d \cup {key} |-> IF k = key THEN value ELSE d[k]]

(***************************************************************************)
(* The sink: save_data_and_plots.  Its result lists the records it writes  *)
(* out; a written record keeps the fields of data as they are when the     *)
(* files are written and the name used for the run directory.              *)
(***************************************************************************)
Written(d, name) ==
    [device_name |-> d["device_name"], params |-> d["params"],
     voltage_steps |-> d["voltage_steps"], output_data |-> d["output_data"],
     saved_as |-> name]

\* BLE save_data_and_plots: skips a record with no device name or no samples
ble_save_data_and_plots(d) ==
    IF ~HasDeviceName(d) THEN << >>
    ELSE IF ~HasOutputData(d) THEN << >>
    ELSE << Written(d, d["device_name"][1]) >>

\* SWO generate_swv_plot: discards the last sample of data['output_data']
\* in place when both ramp parameters parse and the sample count is odd
swo_generate_swv_plot(d) ==
    LET p == d["params"]
        known == "Param_RampStartVolt" \in DOMAIN p /\ "Param_RampPeakVolt" \in DOMAIN p
        n == Len(d["output_data"])
    IN  IF known /\ ParseFloat(p["Param_RampStartVolt"]).ok
                 /\ ParseFloat(p["Param_RampPeakVolt"]).ok /\ n % 2 # 0
        THEN SetItem(d, "output_data", SubSeq(d["output_data"], 1, n - 1))
        ELSE d

\* SWO save_data_and_plots: always writes; a missing name becomes
\* 'default_device'.  Returns the record written and data as it leaves it.
swo_save_data_and_plots(d) ==
    LET d1 == IF ~HasDeviceName(d)
              THEN SetItem(d, "device_name", << "default_device" >>)
              ELSE d
    IN  [emits |-> << Written(d, d1["device_name"][1]) >>,
         data |-> swo_generate_swv_plot(d1)]

(***************************************************************************)
(* parse_line.  The result is the returned state, data as the call leaves  *)
(* it, the records written out during the call, and exc: "none" or the     *)
(* exception that leaves the call.                                         *)
(***************************************************************************)
EndMarker == "SqrWave Voltammetry test finished"

Result(st, d, em, ex) == [state |-> st, data |-> d, emits |-> em, exc |-> ex]

\* a variant of VoltageStr that forgets to cut the unit suffix
VoltageStr_keeps_unit(line) == Strip(Split(line, ":")[2])

\* the value text of a 'Voltage Step:' line:
\* line.split(':')[1].split('mV')[0].strip(); a line with the prefix always
\* has a ':' so the index never fails
VoltageStr(line) == Strip(Split(Split(line, ":")[2], "mV")[1])

\* the 'Voltage Step:' branch, lines 76-82 (BLE) and 55-61 (SWO)
voltage_step_line(line, d) ==
    LET v == ParseFloat(VoltageStr(line))
    IN  IF v.ok
        THEN SetItem(d, "voltage_steps", Append(d["voltage_steps"], v.val))
        ELSE d

\* the index and value of an 'index:' line, once it has two fields
IndexField(parts) == ParseInt(Strip(Split(parts[1], ":")[2]))

ValueField(parts) == ParseFloat(Strip(parts[2]))

\* BLE, lines 91-94: the line has two fields, an integer index and a float value
ble_index_ok(line) ==
    LET parts == Split(line, ",")
    IN  Len(parts) >= 2 /\ IndexField(parts).ok /\ ValueField(parts).ok

\* the 'index:' branch of BLE, lines 89-97
ble_index_line(line, d) ==
    LET parts == Split(line, ",")
    IN  IF ble_index_ok(line)
        THEN SetItem(d, "output_data",
                     Append(d["output_data"],
                            << IndexField(parts).val, ValueField(parts).val >>))
        ELSE d

\* variant: the value is taken from the last comma-separated field
swo_index_line_last_field(line, d) ==
    LET parts == Split(line, ",")
        value == ParseFloat(Strip(parts[Len(parts)]))
    IN  IF IndexField(parts).ok /\ Len(parts) >= 2 /\ value.ok
        THEN SetItem(d, "output_data",
                     Append(d["output_data"], << IndexField(parts).val, value.val >>))
        ELSE d

\* the 'index:' branch of SWO, lines 67-74: parts[1] raises IndexError,
\* which is caught, when there is no comma
swo_index_line(line, d) ==
    LET parts == Split(line, ",")
    IN  IF IndexField(parts).ok /\ Len(parts) >= 2 /\ ValueField(parts).ok
        THEN SetItem(d, "output_data",
                     Append(d["output_data"],
                            << IndexField(parts).val, ValueField(parts).val >>))
        ELSE d

\* the name taken from a 'Device Name:' line
DeviceNameOf(line) == Strip(SplitOnce(line, ":")[2])

\* a variant of ble_device_name_line that resets the record before saving it
ble_device_name_line_reset_first(line, st, d) ==
    LET fresh == NewRecord(<< DeviceNameOf(line) >>)
        em == IF HasOutputData(fresh) THEN ble_save_data_and_plots(fresh) ELSE << >>
    IN  Result("parsing_params", fresh, em, "none")

\* BLE, lines 33-55: save the previous run, then reset
ble_device_name_line(line, st, d) ==
    LET em == IF HasOutputData(d) THEN ble_save_data_and_plots(d) ELSE << >>
    IN  Result("parsing_params", NewRecord(<< DeviceNameOf(line) >>), em, "none")

\* BLE, lines 58-62: 'Data Output:' was omitted before the index lines
ble_phase_skip(line, st) == st = "voltage_steps" /\ StartsWith(line, "index:")

\* a variant of ble_params_phase that stores the value without trimming it
ble_params_phase_untrimmed(line, st, d) ==
    IF StartsWith(line, "Param_")
    THEN LET parts == SplitOnce(line, ":")
         IN  IF Len(parts) = 2
             THEN Result(st, SetItem(d, "params",
                             SetItem(d["params"], Strip(parts[1]), parts[2])),
                         << >>, "none")
             ELSE Result(st, d, << >>, "none")
    ELSE IF StartsWith(line, "Voltage Steps:")
    THEN Result("voltage_steps", d, << >>, "none")
    ELSE Result(st, d, << >>, "none")

\* BLE, lines 64-73
ble_params_phase(line, st, d) ==
    IF StartsWith(line, "Param_")
    THEN LET parts == SplitOnce(line, ":")
         IN  IF Len(parts) = 2
             THEN IF "params" \in DOMAIN d
                  THEN Result(st, SetItem(d, "params",
                                  SetItem(d["params"], Strip(parts[1]), Strip(parts[2]))),
                              << >>, "none")
                  ELSE Result(st, d, << >>, "KeyError")
             ELSE Result(st, d, << >>, "none")
    ELSE IF StartsWith(line, "Voltage Steps:")
    THEN Result("voltage_steps", d, << >>, "none")
    ELSE Result(st, d, << >>, "none")

\* a variant of voltage_steps_phase that takes any other line for the
\* 'Data Output:' marker
voltage_steps_phase_any_marker(line, st, d) ==
    IF StartsWith(line, "Voltage Step:")
    THEN Result(st, voltage_step_line(line, d), << >>, "none")
    ELSE Result("data_output", d, << >>, "none")

\* lines 75-86 (BLE) and 54-64 (SWO)
voltage_steps_phase(line, st, d) ==
    IF StartsWith(line, "Voltage Step:")
    THEN IF "voltage_steps" \in DOMAIN d
         THEN Result(st, voltage_step_line(line, d), << >>, "none")
         ELSE IF ParseFloat(VoltageStr(line)).ok
              THEN Result(st, d, << >>, "KeyError")
              ELSE Result(st, d, << >>, "none")
    ELSE IF StartsWith(line, "Data Output:")
    THEN Result("data_output", d, << >>, "none")
    ELSE Result(st, d, << >>, "none")

\* variant: the end-of-test marker saves the record and resets, as the SWO
\* logger does
ble_data_output_phase_marker_saves(line, st, d) ==
    IF StartsWith(line, "index:")
    THEN IF ble_index_ok(line) /\ "output_data" \notin DOMAIN d
         THEN Result(st, d, << >>, "KeyError")
         ELSE Result(st, ble_index_line(line, d), << >>, "none")
    ELSE IF Contains(line, EndMarker) /\ HasOutputData(d)
    THEN Result("waiting_for_data", EmptyDict, ble_save_data_and_plots(d), "none")
    ELSE Result(st, d, << >>, "none")

\* BLE, lines 88-101: the end-of-test marker only prints
ble_data_output_phase(line, st, d) ==
    IF StartsWith(line, "index:")
    THEN IF ble_index_ok(line) /\ "output_data" \notin DOMAIN d
         THEN Result(st, d, << >>, "KeyError")
         ELSE Result(st, ble_index_line(line, d), << >>, "none")
    ELSE Result(st, d, << >>, "none")

\* BLE parse_line, lines 28-103
ble_parse_line(line, st, d) ==
    IF StartsWith(line, "Device Name:")
    THEN ble_device_name_line(line, st, d)
    ELSE LET skip == ble_phase_skip(line, st)
             cur == IF skip THEN "data_output" ELSE st
             r == CASE cur = "parsing_params" -> ble_params_phase(line, cur, d)
                    [] cur = "voltage_steps" -> voltage_steps_phase(line, cur, d)
                    [] cur = "data_output" -> ble_data_output_phase(line, cur, d)
                    [] OTHER -> Result(cur, d, << >>, "none")
         IN  r

\* a variant of swo_device_name_line that sets the new name without clearing
\* the other fields
swo_device_name_line_keeps_fields(line, st, d) ==
    LET em == IF st \notin {"waiting_for_data", "initial"}
              THEN swo_save_data_and_plots(d).emits
              ELSE << >>
    IN  Result("parsing_params", SetItem(d, "device_name", << DeviceNameOf(line) >>),
               em, "none")

\* SWO, lines 23-40: save whenever a run is open, then reset
swo_device_name_line(line, st, d) ==
    LET em == IF st \notin {"waiting_for_data", "initial"}
              THEN swo_save_data_and_plots(d).emits
              ELSE << >>
    IN  Result("parsing_params", NewRecord(<< DeviceNameOf(line) >>), em, "none")

\* variant: 'Data Output:' met in the parameter phase starts the data phase
swo_params_phase_jumps_to_data(line, st, d) ==
    IF StartsWith(line, "Param_")
    THEN LET parts == SplitOnce(line, ":")
         IN  IF Len(parts) = 2
             THEN Result(st, SetItem(d, "params",
                             SetItem(d["params"], Strip(parts[1]), Strip(parts[2]))),
                         << >>, "none")
             ELSE Result(st, d, << >>, "ValueError")
    ELSE IF StartsWith(line, "Voltage Steps:")
    THEN Result("voltage_steps", d, << >>, "none")
    ELSE IF StartsWith(line, "Data Output:")
    THEN Result("data_output", d, << >>, "none")
    ELSE Result(st, d, << >>, "none")

\* SWO, lines 46-52: key, value = line.split(':', 1) raises ValueError when
\* the line has no ':'
swo_params_phase(line, st, d) ==
    IF StartsWith(line, "Param_")
    THEN LET parts == SplitOnce(line, ":")
         IN  IF Len(parts) = 2
             THEN Result(st, SetItem(d, "params",
                             SetItem(d["params"], Strip(parts[1]), Strip(parts[2]))),
                         << >>, "none")
             ELSE Result(st, d, << >>, "ValueError")
    ELSE IF StartsWith(line, "Voltage Steps:")
    THEN Result("voltage_steps", d, << >>, "none")
    ELSE Result(st, d, << >>, "none")

\* variant: the data_output phase still accepts parameter lines
swo_data_output_phase_accepts_params(line, st, d) ==
    IF StartsWith(line, "index:")
    THEN Result(st, swo_index_line(line, d), << >>, "none")
    ELSE IF StartsWith(line, "Param_")
    THEN swo_params_phase(line, st, d)
    ELSE Result(st, d, << >>, "none")

\* SWO, lines 66-74
swo_data_output_phase(line, st, d) ==
    IF StartsWith(line, "index:")
    THEN Result(st, swo_index_line(line, d), << >>, "none")
    ELSE Result(st, d, << >>, "none")

\* variant: the marker returns the state 'finished' and leaves saving and
\* resetting to the caller
swo_finished_marker_returns_finished(line, r) ==
    IF r.exc = "none" /\ Contains(line, EndMarker) /\ r.data["output_data"] # << >>
    THEN Result("finished", r.data, r.emits, "none")
    ELSE r

\* variant: the marker saves the record and leaves the state for
\* waiting_for_data without clearing the record
swo_finished_marker_keeps_record(line, r) ==
    IF r.exc = "none" /\ Contains(line, EndMarker) /\ r.data["output_data"] # << >>
    THEN Result("waiting_for_data", r.data,
                r.emits \o swo_save_data_and_plots(r.data).emits, "none")
    ELSE r

\* variant: the marker saves and clears the record but leaves the state
swo_finished_marker_keeps_state(line, r) ==
    IF r.exc = "none" /\ Contains(line, EndMarker) /\ r.data["output_data"] # << >>
    THEN Result(r.state, NewRecord(None),
                r.emits \o swo_save_data_and_plots(r.data).emits, "none")
    ELSE r

\* SWO, lines 79-91: the end-of-test marker saves and resets when there are samples
swo_finished_marker(line, r) ==
    IF r.exc = "none" /\ Contains(line, EndMarker) /\ r.data["output_data"] # << >>
    THEN Result("waiting_for_data", NewRecord(None),
                r.emits \o swo_save_data_and_plots(r.data).emits, "none")
    ELSE r

\* variant: system log lines are parsed like any other line
swo_parse_line_parses_logs(line, st, d) ==
    IF StartsWith(line, "Device Name:")
    THEN swo_device_name_line(line, st, d)
    ELSE LET r == CASE st = "parsing_params" -> swo_params_phase(line, st, d)
                    [] st = "voltage_steps" -> voltage_steps_phase(line, st, d)
                    [] st = "data_output" -> swo_data_output_phase(line, st, d)
                    [] OTHER -> Result(st, d, << >>, "none")
         IN  swo_finished_marker(line, r)

\* SWO parse_line, lines 16-93
swo_parse_line(line, st, d) ==
    IF StartsWith(line, "Device Name:")
    THEN swo_device_name_line(line, st, d)
    ELSE IF StartsWith(line, "[I]")
    THEN Result(st, d, << >>, "none")
    ELSE LET r == CASE st = "parsing_params" -> swo_params_phase(line, st, d)
                    [] st = "voltage_steps" -> voltage_steps_phase(line, st, d)
                    [] st = "data_output" -> swo_data_output_phase(line, st, d)
                    [] OTHER -> Result(st, d, << >>, "none")
         IN  swo_finished_marker(line, r)

(***************************************************************************)
(* BLE notification_handler, lines 261-279.                                *)
(***************************************************************************)
ByteLead == "^"     \* the byte 0xC3
ByteCont == "~"     \* the byte 0xA9
CharE9 == "@"       \* the character U+00E9

\* data.decode('utf-8') succeeds: every lead byte is followed by its
\* continuation byte and no continuation byte stands alone
Utf8Valid(b) ==
    \A i \in 1..Len(b) :
        /\ CharAt(b, i) = ByteLead => (i < Len(b) /\ CharAt(b, i + 1) = ByteCont)
        /\ CharAt(b, i) = ByteCont => (i > 1 /\ CharAt(b, i - 1) = ByteLead)

\* the text data.decode('utf-8') returns for valid bytes
RECURSIVE Utf8Text(_)
Utf8Text(b) ==
    IF b = "" THEN ""
    ELSE IF StartsWith(b, ByteLead \o ByteCont)
    THEN CharE9 \o Utf8Text(SubSeq(b, 3, Len(b)))
    ELSE CharAt(b, 1) \o Utf8Text(SubSeq(b, 2, Len(b)))

\* the handler's while loop over a handler state
\* h = [rx_buffer, state, data, emits, calls, exc]
RECURSIVE process_complete_lines(_)
process_complete_lines(h) ==
    IF h.exc # "none" \/ ~Contains(h.rx_buffer, "\n") THEN h
    ELSE LET p == SplitOnce(h.rx_buffer, "\n")
             line == Strip(p[1])
             r == ble_parse_line(line, h.state, h.data)
         IN  IF line = ""
             THEN process_complete_lines([h EXCEPT !.rx_buffer = p[2]])
             ELSE process_complete_lines(
                    [rx_buffer |-> p[2],
                     state |-> IF r.exc = "none" THEN r.state ELSE h.state,
                     data |-> r.data,
                     emits |-> h.emits \o r.emits,
                     calls |-> Append(h.calls, line),
                     exc |-> r.exc])

\* variant: the decoded chunk replaces the buffer instead of extending it
notification_handler_overwrites_buffer(chunk, buf, st, d) ==
    LET h0 == [rx_buffer |-> buf, state |-> st, data |-> d,
               emits |-> << >>, calls |-> << >>, exc |-> "none"]
    IN  IF ~Utf8Valid(chunk) THEN h0
        ELSE process_complete_lines([h0 EXCEPT !.rx_buffer = Utf8Text(chunk)])

\* variant: the decode error branch also empties the buffer
notification_handler_error_clears_buffer(chunk, buf, st, d) ==
    LET h0 == [rx_buffer |-> buf, state |-> st, data |-> d,
               emits |-> << >>, calls |-> << >>, exc |-> "none"]
    IN  IF ~Utf8Valid(chunk) THEN [h0 EXCEPT !.rx_buffer = ""]
        ELSE process_complete_lines([h0 EXCEPT !.rx_buffer = buf \o Utf8Text(chunk)])

notification_handler(chunk, buf, st, d) ==
    LET h0 == [rx_buffer |-> buf, state |-> st, data |-> d,
               emits |-> << >>, calls |-> << >>, exc |-> "none"]
    IN  IF ~Utf8Valid(chunk) THEN h0
        ELSE process_complete_lines([h0 EXCEPT !.rx_buffer = buf \o Utf8Text(chunk)])

\* variant: the finally block ends without calling the sink
ble_finally_skips_save(d) == << >>

\* BLE main, lines 337-343: the finally block
ble_finally(d) == IF HasOutputData(d) THEN ble_save_data_and_plots(d) ELSE << >>

(***************************************************************************)
(* Inputs of the line-level specification.                                 *)
(***************************************************************************)
Lines ==
    {"Device Name: X", "Device Name: Y", "Device Name:",
     "Param_A: 1", "Param_A",
     "Voltage Steps:", "Voltage Step: 250mV", "Voltage Step: -190mV", "Voltage Step: abcmV",
     "Data Output:", "index: 3, 1.25", "index: 3", "index: x, 1.25",
     "index: 3, abc", "index: 3, 1.25, 7",
     EndMarker, "hello", "[I] index: 3, 1.25", "[I] Param_A: 1",
     "[I] Voltage Step: 250mV", "[I] " \o EndMarker}

\* the record stays within the bounds of the model
WithinBounds(d) ==
    /\ "output_data" \in DOMAIN d => Len(d["output_data"]) <= MaxSamples
    /\ "voltage_steps" \in DOMAIN d => Len(d["voltage_steps"]) <= MaxSteps

Step(kind, line, exc, emits) ==
    [kind |-> kind, line |-> line, state |-> state, data |-> data,
     rx_buffer |-> rx_buffer, ncalls |-> Len(calls),
     run_saved |-> run_saved, exc |-> exc, emits |-> emits]

\* the kind of a notification step: the chunk was dropped by the decode
\* error branch, held no complete non-blank line, or had lines parsed
HandlerKind(chunk, h) ==
    IF ~Utf8Valid(chunk) THEN "dropped"
    ELSE IF h.calls = << >> THEN "blank" ELSE "line"

\* run_saved after a step that parsed line and wrote out emits
RunSavedAfter(line, emits) ==
    IF StartsWith(line, "Device Name:") THEN FALSE ELSE run_saved \/ emits # << >>

(***************************************************************************)
(* Initial state: main() up to the point where input is awaited.           *)
(***************************************************************************)
\* BLE lines 26, 256-259; SWO lines 207-213
InitProgram ==
    /\ channel \in {"ble", "swo"}
    /\ pc = "running"
    /\ state = "waiting_for_data"
    /\ data = IF channel = "ble" THEN EmptyDict ELSE NewRecord(None)
    /\ rx_buffer = ""
    /\ user_input = ""
    /\ run_saved = FALSE
    /\ sink_log = << >>
    /\ calls = << >>
    /\ received = ""
    /\ runs = << >>
    /\ loop = [running |-> "none", queue |-> << >>, main_at |-> "await_stdin",
               saving |-> << >>, handlers |-> 0]
    /\ last = [kind |-> "init", line |-> "", state |-> "waiting_for_data",
               data |-> data, rx_buffer |-> "", ncalls |-> 0,
               run_saved |-> FALSE, exc |-> "none", emits |-> << >>]

Init == InitProgram /\ stream = "" /\ pending = ""

(***************************************************************************)
(* BLE actions.                                                            *)
(***************************************************************************)
\* one notification carrying a whole line and its terminator
BleNotify(chunk) ==
    /\ channel = "ble" /\ pc = "running"
    /\ \E h \in {notification_handler(chunk, rx_buffer, state, data)} :
       LET line == IF h.calls = << >> THEN "" ELSE h.calls[Len(h.calls)]
       IN  /\ WithinBounds(h.data)
           /\ rx_buffer' = h.rx_buffer
           /\ state' = h.state
           /\ data' = h.data
           /\ run_saved' = RunSavedAfter(line, h.emits)
           /\ last' = Step(HandlerKind(chunk, h), line, h.exc, h.emits)
    /\ UNCHANGED << channel, pc, user_input, sink_log, stream, pending, calls, received, loop, runs >>

\* lines 305-325: the command loop reads TRIGGER (or any other command that
\* is not QUIT) and goes on; a failed read_gatt_char is only printed
BleCommand(cmd) ==
    /\ channel = "ble" /\ pc = "running"
    /\ user_input' = cmd
    /\ last' = Step("command", "", "none", << >>)
    /\ UNCHANGED << channel, pc, state, data, rx_buffer, run_saved, sink_log, stream, pending, calls, received, loop, runs >>

\* lines 309-310, 326-331: stdin EOF, QUIT or a ValueError from stdin leave
\* the loop; the client disconnects and the finally block runs
BleStdinClose(cause) ==
    /\ channel = "ble" /\ pc = "running"
    /\ user_input' = IF cause = "quit" THEN "QUIT" ELSE IF cause = "eof" THEN "" ELSE user_input
    /\ run_saved' = (run_saved \/ ble_finally(data) # << >>)
    /\ pc' = "done"
    /\ last' = Step(cause, "", "none", ble_finally(data))
    /\ UNCHANGED << channel, state, data, rx_buffer, sink_log, stream, pending, calls, received, loop, runs >>

\* lines 333-343: cancellation or an error of the client is caught; the
\* finally block runs
BleInterrupted(cause) ==
    /\ channel = "ble" /\ pc = "running"
    /\ run_saved' = (run_saved \/ ble_finally(data) # << >>)
    /\ pc' = "done"
    /\ last' = Step(cause, "", "none", ble_finally(data))
    /\ UNCHANGED << channel, state, data, rx_buffer, user_input, sink_log, stream, pending, calls, received, loop, runs >>

(***************************************************************************)
(* SWO actions.                                                            *)
(***************************************************************************)
\* one iteration of the for loop of main over a line read, lines 215-226
swo_main_iteration(raw, st, d) ==
    LET decoded_line == Strip(raw)
        r == swo_parse_line(decoded_line, st, d)
        s == swo_save_data_and_plots(r.data)
    IN  IF decoded_line = ""
        THEN [state |-> st, data |-> d, emits |-> << >>, exc |-> "none", parsed |-> FALSE]
        ELSE IF r.exc # "none"
        THEN [state |-> st, data |-> r.data, emits |-> r.emits, exc |-> r.exc, parsed |-> TRUE]
        ELSE IF r.state = "finished"
        THEN [state |-> "waiting_for_data", data |-> s.data,
              emits |-> r.emits \o s.emits, exc |-> "none", parsed |-> TRUE]
        ELSE [state |-> r.state, data |-> r.data, emits |-> r.emits,
              exc |-> "none", parsed |-> TRUE]

\* an exception that leaves parse_line is caught by 'except Exception',
\* lines 237-238, and main ends
SwoReadLine(raw) ==
    /\ channel = "swo" /\ pc = "running"
    /\ \E r \in {swo_main_iteration(raw, state, data)} :
           /\ WithinBounds(r.data)
           /\ state' = r.state
           /\ data' = r.data
           /\ run_saved' = RunSavedAfter(Strip(raw), r.emits)
           /\ pc' = IF r.exc = "none" THEN "running" ELSE "done"
           /\ last' = IF r.parsed
                      THEN Step("line", Strip(raw), r.exc, r.emits)
                      ELSE Step("blank", "", "none", << >>)
    /\ UNCHANGED << channel, rx_buffer, user_input, sink_log, stream, pending, calls, received, loop, runs >>

\* lines 215, 228-240: readline returns '' (the subprocess closed stdout), or
\* reading raises; main prints and returns
SwoStop(cause) ==
    /\ channel = "swo" /\ pc = "running"
    /\ pc' = "done"
    /\ last' = Step(cause, "", "none", << >>)
    /\ UNCHANGED << channel, state, data, rx_buffer, user_input, run_saved, sink_log,
                    stream, pending, calls, received, loop, runs >>

Next ==
    \/ \E l \in Lines : BleNotify(l \o "\n")
    \/ BleNotify("\n")
    \/ BleCommand("TRIGGER")
    \/ \E c \in {"eof", "quit", "stdin_error"} : BleStdinClose(c)
    \/ \E c \in {"cancelled", "error"} : BleInterrupted(c)
    \/ \E l \in Lines : SwoReadLine(l \o "\n")
    \/ SwoReadLine("\n")
    \/ \E c \in {"eof", "error"} : SwoStop(c)

Spec == Init /\ [][Next]_vars

(***************************************************************************)
(* Scripted streams: the source delivers a fixed stream, to the BLE        *)
(* wrapper as notifications of arbitrary fragments and to the SWO logger   *)
(* through readline; calls and sink_log record what reaches parse_line and *)
(* the sink.                                                               *)
(***************************************************************************)
\* one notification carrying the next n bytes of the stream
ScriptBleNotify(n) ==
    /\ channel = "ble" /\ pc = "running"
    /\ n <= Len(pending)
    /\ \E chunk \in {SubSeq(pending, 1, n)},
          h \in {notification_handler(SubSeq(pending, 1, n), rx_buffer, state, data)} :
       LET line == IF h.calls = << >> THEN "" ELSE h.calls[Len(h.calls)]
       IN  /\ rx_buffer' = h.rx_buffer
           /\ state' = h.state
           /\ data' = h.data
           /\ run_saved' = RunSavedAfter(line, h.emits)
           /\ sink_log' = sink_log \o h.emits
           /\ calls' = calls \o h.calls
           /\ received' = IF Utf8Valid(chunk) THEN received \o Utf8Text(chunk) ELSE received
           /\ last' = Step(HandlerKind(chunk, h), line, h.exc, h.emits)
    /\ pending' = SubSeq(pending, n + 1, Len(pending))
    /\ UNCHANGED << channel, pc, user_input, stream, loop, runs >>

\* process.stdout.readline(): the text up to and including the next '\n'
ReadLineLen(text) == IF Contains(text, "\n") THEN Find(text, "\n") ELSE Len(text)

\* one iteration of the SWO loop over the next line of the stream
ScriptSwoReadLine ==
    /\ channel = "swo" /\ pc = "running"
    /\ pending # ""
    /\ \E r \in {swo_main_iteration(SubSeq(pending, 1, ReadLineLen(pending)), state, data)} :
       LET line == Strip(SubSeq(pending, 1, ReadLineLen(pending)))
       IN  /\ state' = r.state
           /\ data' = r.data
           /\ run_saved' = RunSavedAfter(line, r.emits)
           /\ sink_log' = sink_log \o r.emits
           /\ calls' = IF r.parsed THEN Append(calls, line) ELSE calls
           /\ pc' = IF r.exc = "none" THEN "running" ELSE "done"
           /\ last' = IF r.parsed
                      THEN Step("line", line, r.exc, r.emits)
                      ELSE Step("blank", "", "none", << >>)
    /\ pending' = SubSeq(pending, ReadLineLen(pending) + 1, Len(pending))
    /\ UNCHANGED << channel, rx_buffer, user_input, stream, received, loop, runs >>

RECURSIVE JoinLines(_)
JoinLines(ls) == IF ls = << >> THEN "" ELSE ls[1] \o "\n" \o JoinLines(Tail(ls))

ScenarioLines ==
    << "Device Name: THOR-01",
       "Param_RampStartVolt: -200",
       "Param_RampPeakVolt: 200",
       "Voltage Steps:",
       "Voltage Step: -200mV",
       "Voltage Step: -190mV",
       "Data Output:",
       "index: 0, 1.10",
       "index: 1, 1.15",
       "Device Name: THOR-02" >>

InitScenario ==
    /\ InitProgram
    /\ stream = JoinLines(ScenarioLines)
    /\ pending = stream

NextScenario ==
    \/ \E n \in 1..MaxChunk : ScriptBleNotify(n)
    \/ ScriptSwoReadLine

SpecScenario == InitScenario /\ [][NextScenario]_vars

\* complete lines: the bytes of a line followed by its terminator
FragLines ==
    {"Device Name: X\n", "Param_A: 1\r\n", "  index: 3, 1.25 \n", "Voltage Steps:\n",
     "hello\n", "Device Name: " \o ByteLead \o ByteCont \o "\n",
     "Param_" \o ByteLead \o ByteCont \o ": 1\n"}

InitFrag ==
    /\ InitProgram
    /\ channel = "ble"
    /\ stream \in FragLines
    /\ pending = stream

NextFrag == \E n \in 1..Len(pending) : ScriptBleNotify(n)

SpecFrag == InitFrag /\ [][NextFrag]_vars

\* streams of several lines: blank lines, surrounding whitespace, '\r\n'
\* terminators, a two-byte character and text after the last terminator
ReasmStreams ==
    {"hello\n\n  Device Name: X \nPar",
     "Device Name: X\r\nParam_A: 1\r\n \r\nVolt",
     "Device Name: Y\nParam_" \o ByteLead \o ByteCont \o ": 1\nhel"}

InitReasm ==
    /\ InitProgram
    /\ channel = "ble"
    /\ stream \in ReasmStreams
    /\ pending = stream

NextReasm == \E n \in 1..Len(pending) : ScriptBleNotify(n)

SpecReasm == InitReasm /\ [][NextReasm]_vars

(***************************************************************************)
(* Properties of the line-level specification Spec.                        *)
(***************************************************************************)
IsDeviceNameLine(l) == StartsWith(l, "Device Name:")

\* deviceName non-empty and at least one accepted output sample
Savable(d) == HasDeviceName(d) /\ HasOutputData(d)

\* the record the sink writes for a savable record d
RecordOf(d) ==
    [device_name |-> d["device_name"], params |-> d["params"],
     voltage_steps |-> d["voltage_steps"], output_data |-> d["output_data"],
     saved_as |-> d["device_name"][1]]

LineStep == last.kind = "line"

StopKinds == {"eof", "quit", "stdin_error", "cancelled", "error"}

F(m, e) == [m |-> m, e |-> e]

\* C1: boundary ordering.  When a 'Device Name:' line is processed while the
\* in-progress record is savable, the sink writes exactly one record during
\* that line, it is the record as it was before the line (first run's name,
\* nothing cleared yet), and no record had been written for that run before.
C1_BoundaryOrdering ==
    (LineStep /\ IsDeviceNameLine(last.line) /\ Savable(last.data)) =>
        /\ last.emits = << RecordOf(last.data) >>
        /\ ~last.run_saved
        /\ last.exc = "none"
        /\ data["output_data"] = << >>

C1_Witness ==
    /\ LineStep /\ last.line = "Device Name: Y" /\ channel = "swo"
    /\ last.data["device_name"] = << "X" >>
    /\ Len(last.data["output_data"]) = 2
    /\ data["device_name"] = << "Y" >>

\* C2: end-of-stream flush.  When the source stops (clean close, cancellation
\* or a source error) while the in-progress record is savable, that record is
\* written out exactly once by the step that ends main.
C2_EndOfStreamFlush ==
    (pc = "done" /\ last.kind \in StopKinds /\ Savable(last.data)) =>
        /\ last.emits = << RecordOf(last.data) >>
        /\ ~last.run_saved

\* C3: no emission of an unsavable record.  Every record the sink writes out
\* had, when the sink was called, a non-empty device name and at least one
\* output sample.
C3_NoUnsavableEmission ==
    \A i \in 1..Len(last.emits) :
        /\ last.emits[i].device_name # None
        /\ last.emits[i].device_name # << "" >>
        /\ last.emits[i].output_data # << >>

\* C5: phase-skip recovery.  An 'index:' line processed in state
\* voltage_steps leaves the state data_output, and 'index: 3, 1.25' is
\* appended to output_data by that same line.
C5_PhaseSkipRecovery ==
    (LineStep /\ last.state = "voltage_steps" /\ StartsWith(last.line, "index:")) =>
        /\ state = "data_output"
        /\ last.line = "index: 3, 1.25" =>
               data["output_data"] = Append(last.data["output_data"], << 3, F(125, 2) >>)

\* the line belongs to the grammar of the phase st
InPhaseGrammar(st, l) ==
    \/ st = "parsing_params" /\ (StartsWith(l, "Param_") \/ StartsWith(l, "Voltage Steps:"))
    \/ st = "voltage_steps" /\ (StartsWith(l, "Voltage Step:") \/ StartsWith(l, "Data Output:"))
    \/ st = "data_output" /\ StartsWith(l, "index:")

\* the line matches no rule applicable in state st
IsNoise(st, l) ==
    /\ ~IsDeviceNameLine(l)
    /\ ~(st = "voltage_steps" /\ StartsWith(l, "index:"))
    /\ ~InPhaseGrammar(st, l)
    /\ ~Contains(l, EndMarker)

\* C7: idempotent noise.  A line that matches no rule applicable in the
\* current state leaves the state and the record unchanged, writes nothing
\* out and raises nothing.
C7_IdempotentNoise ==
    (LineStep /\ IsNoise(last.state, last.line)) =>
        /\ state = last.state
        /\ data = last.data
        /\ last.emits = << >>
        /\ last.exc = "none"

C7_Witness ==
    /\ LineStep /\ last.line = "hello" /\ last.state = "voltage_steps"
    /\ channel = "ble" /\ Len(data["voltage_steps"]) = 1

\* C8: numeric extraction of voltage steps.  In state voltage_steps the line
\* 'Voltage Step: 250mV' appends 250.0 to the end of voltage_steps and changes
\* nothing else; 'Voltage Step: abcmV' changes nothing; neither changes the
\* state nor writes a record out.
C8_VoltageStepExtraction ==
    (LineStep /\ last.state = "voltage_steps" /\ StartsWith(last.line, "Voltage Step:")) =>
        /\ state = "voltage_steps"
        /\ last.emits = << >>
        /\ last.exc = "none"
        /\ last.line = "Voltage Step: 250mV" =>
               data = SetItem(last.data, "voltage_steps",
                              Append(last.data["voltage_steps"], F(250, 0)))
        /\ last.line = "Voltage Step: -190mV" =>
               data = SetItem(last.data, "voltage_steps",
                              Append(last.data["voltage_steps"], F(-190, 0)))
        /\ last.line = "Voltage Step: abcmV" => data = last.data

C8_Witness ==
    /\ LineStep /\ last.line = "Voltage Step: 250mV" /\ last.state = "voltage_steps"
    /\ channel = "swo"
    /\ data["voltage_steps"] = << F(-190, 0), F(250, 0) >>

\* the name each 'Device Name:' line of Lines carries
ExpectedName(l) ==
    CASE l = "Device Name: X" -> "X"
      [] l = "Device Name: Y" -> "Y"
      [] l = "Device Name:" -> ""

\* C9: run-boundary reset.  A 'Device Name:' line is matched in every state;
\* after it the state is parsing_params, device_name is the trimmed text after
\* the first ':' and params, voltage_steps and output_data are empty.
C9_RunBoundaryReset ==
    (LineStep /\ IsDeviceNameLine(last.line)) =>
        /\ state = "parsing_params"
        /\ data = [device_name |-> << ExpectedName(last.line) >>,
                   params |-> [k \in {} |-> ""],
                   voltage_steps |-> << >>, output_data |-> << >>]

C9_Witness ==
    /\ LineStep /\ last.line = "Device Name: Y" /\ channel = "swo"
    /\ last.state = "voltage_steps"
    /\ DOMAIN last.data["params"] # {}
    /\ last.data["voltage_steps"] # << >>
    /\ state = "parsing_params"

\* C10: per-line error containment.  No exception leaves the processing of a
\* line, and main keeps running after every line.
C10_LineErrorContainment ==
    LineStep => (last.exc = "none" /\ pc = "running")

(***************************************************************************)
(* Properties of the scripted specifications.                              *)
(***************************************************************************)
ScenarioDelivered ==
    /\ Len(calls) <= Len(ScenarioLines)
    /\ calls = SubSeq(ScenarioLines, 1, Len(calls))

ScenarioOutcome(params) ==
    /\ ScenarioDelivered
    /\ Len(calls) < 10 => sink_log = << >>
    /\ Len(calls) = 10 =>
        /\ sink_log = << [device_name |-> << "THOR-01" >>,
                          params |-> params,
                          voltage_steps |-> << F(-200, 0), F(-190, 0) >>,
                          output_data |-> << << 0, F(11, 1) >>, << 1, F(115, 2) >> >>,
                          saved_as |-> "THOR-01"] >>
        /\ last.emits = sink_log
        /\ state = "parsing_params"
        /\ data = [device_name |-> << "THOR-02" >>, params |-> [k \in {} |-> ""],
                   voltage_steps |-> << >>, output_data |-> << >>]

\* C4 as stated: the end-to-end scenario writes out exactly one record, for
\* THOR-01, with params {RampStartVolt: -200, RampPeakVolt: 200}, while the
\* second 'Device Name:' line is processed, and leaves the parser in
\* parsing_params with an empty THOR-02 record.
C4_ScenarioAsStated ==
    ScenarioOutcome([RampStartVolt |-> "-200", RampPeakVolt |-> "200"])

\* C4 amended: as C4, with the parameters stored under the full key text
\* before the ':', prefix included: {Param_RampStartVolt: '-200',
\* Param_RampPeakVolt: '200'}.
C4_Scenario ==
    ScenarioOutcome([Param_RampStartVolt |-> "-200", Param_RampPeakVolt |-> "200"])

C4_Witness ==
    /\ Len(calls) = 10 /\ pending = "" /\ channel = "ble"
    /\ Len(sink_log) = 1
    /\ data["device_name"] = << "THOR-02" >>

\* C6: fragmentation invariance.  Once all fragments of a complete line have
\* been fed, parse_line has received exactly the calls it receives when the
\* line is fed in one chunk.
C6_FragmentationInvariance ==
    pending = "" =>
        calls = notification_handler(stream, "", "waiting_for_data", EmptyDict).calls

(***************************************************************************)
(* End-of-test marker.                                                     *)
(***************************************************************************)
\* the name the SWO sink files a record under
SwoSavedName(d) == IF HasDeviceName(d) THEN d["device_name"][1] ELSE "default_device"

\* C11 as stated: on the SWO channel, whenever a line containing the
\* end-of-test marker is processed in state data_output, the record is
\* written out during that line, and after it the state is waiting_for_data
\* and the record is empty.
C11_MarkerAlwaysFinalizes ==
    (LineStep /\ channel = "swo" /\ last.state = "data_output"
              /\ Contains(last.line, EndMarker)) =>
        /\ Len(last.emits) = 1
        /\ state = "waiting_for_data"
        /\ data = NewRecord(None)

\* C11: on the SWO channel, when a line that contains the end-of-test marker
\* and starts with neither 'Device Name:' nor '[I]' is processed in state
\* data_output while the record holds at least one output sample, the record
\* as it stood before the line is written out exactly once during that line,
\* and after it the state is waiting_for_data and the record is empty.
\* With no output sample the marker line writes nothing and leaves the state
\* and the record as they are.
C11_MarkerFinalizesSamples ==
    (LineStep /\ channel = "swo" /\ last.state = "data_output"
              /\ Contains(last.line, EndMarker)
              /\ ~IsDeviceNameLine(last.line) /\ ~StartsWith(last.line, "[I]")
              /\ ~StartsWith(last.line, "index:")) =>
        IF last.data["output_data"] # << >>
        THEN /\ last.emits = << Written(last.data, SwoSavedName(last.data)) >>
             /\ last.exc = "none"
             /\ state = "waiting_for_data"
             /\ data = NewRecord(None)
        ELSE /\ last.emits = << >>
             /\ state = last.state
             /\ data = last.data

C11_Witness ==
    /\ LineStep /\ channel = "swo" /\ last.state = "data_output"
    /\ last.line = EndMarker
    /\ last.data["device_name"] = << "X" >>
    /\ Len(last.data["output_data"]) = 2
    /\ Len(last.emits) = 1
    /\ state = "waiting_for_data"

\* C12: on the BLE channel a line containing the end-of-test marker changes
\* neither the state nor the record and writes nothing out, whatever the
\* state; an 'index:' line processed in state data_output, before or after a
\* marker, is appended to the record of the same run and writes nothing out.
C12_MarkerIgnoredOnBle ==
    /\ (LineStep /\ channel = "ble" /\ Contains(last.line, EndMarker)) =>
           /\ state = last.state
           /\ data = last.data
           /\ last.emits = << >>
           /\ last.exc = "none"
           /\ run_saved = last.run_saved
    /\ (LineStep /\ channel = "ble" /\ last.state = "data_output"
                 /\ last.line = "index: 3, 1.25") =>
           /\ state = "data_output"
           /\ data = SetItem(last.data, "output_data",
                             Append(last.data["output_data"], << 3, F(125, 2) >>))
           /\ last.emits = << >>

C12_Witness ==
    /\ LineStep /\ channel = "ble" /\ last.line = EndMarker
    /\ last.state = "data_output"
    /\ Len(last.data["output_data"]) = 1
    /\ last.data["device_name"] = << "X" >>
    /\ state = "data_output" /\ data = last.data

(***************************************************************************)
(* Reassembly of lines from notifications, over SpecReasm.                 *)
(***************************************************************************)
\* the text after the last terminator of text
AfterLastTerminator(text) == LET segs == Split(text, "\n") IN segs[Len(segs)]

\* the terminated lines of text, trimmed, without the blank ones
TerminatedLines(text) ==
    LET segs == Split(text, "\n")
        trimmed == [i \in 1..(Len(segs) - 1) |-> Strip(segs[i])]
    IN  SelectSeq(trimmed, LAMBDA l : l # "")

\* C13: after every notification whose chunk decodes, rx_buffer holds no
\* terminator and is exactly the decoded text received since the last
\* terminator, and the lines passed to parse_line so far are exactly the
\* terminated lines of the decoded text, trimmed, blank ones left out, each
\* once and in arrival order; text without its terminator has not been
\* parsed.
C13_PartialLineBuffering ==
    last.kind \in {"blank", "line"} =>
        /\ ~Contains(rx_buffer, "\n")
        /\ rx_buffer = AfterLastTerminator(received)
        /\ calls = TerminatedLines(received)

C13_Witness ==
    /\ last.kind = "line"
    /\ last.rx_buffer # "" /\ rx_buffer # ""
    /\ Len(calls) >= 2
    /\ Len(calls) = last.ncalls + 1

\* C14: a notification whose chunk does not decode leaves rx_buffer, the
\* parser state and the record exactly as they were, passes no line to
\* parse_line and writes nothing out.  The handler keeps no other state, so
\* the next chunk is processed as if the dropped one had never arrived.
C14_UndecodableChunkDropped ==
    last.kind = "dropped" =>
        /\ rx_buffer = last.rx_buffer
        /\ state = last.state
        /\ data = last.data
        /\ Len(calls) = last.ncalls
        /\ last.emits = << >>
        /\ last.exc = "none"
        /\ pc = "running"

C14_Witness ==
    /\ last.kind = "dropped"
    /\ rx_buffer # ""
    /\ state = "parsing_params"
    /\ pending # ""

(***************************************************************************)
(* Phases, over Spec.                                                      *)
(***************************************************************************)
\* the line replaced the whole record: a 'Device Name:' line, or on the SWO
\* channel an end-of-test marker that saved the record
WholesaleReset ==
    \/ IsDeviceNameLine(last.line)
    \/ channel = "swo" /\ Contains(last.line, EndMarker) /\ last.emits # << >>

\* the state in which the line was dispatched: the BLE phase-skip guard
\* moves an 'index:' line met in voltage_steps to data_output
DispatchState ==
    IF channel = "ble" /\ ble_phase_skip(last.line, last.state)
    THEN "data_output" ELSE last.state

\* C15: apart from a wholesale reset, a line that changes the record was
\* dispatched in parsing_params and set one entry of params, or in
\* voltage_steps and appended one element to voltage_steps, or in
\* data_output and appended one element to output_data; in each case every
\* other field of the record is as it was before the line.
C15_PhaseScopedMutation ==
    (LineStep /\ ~WholesaleReset /\ data # last.data) =>
        \/ /\ DispatchState = "parsing_params"
           /\ data = SetItem(last.data, "params", data["params"])
           /\ \E k \in DOMAIN data["params"] :
                  data["params"] = SetItem(last.data["params"], k, data["params"][k])
        \/ /\ DispatchState = "voltage_steps"
           /\ Len(data["voltage_steps"]) = Len(last.data["voltage_steps"]) + 1
           /\ data = SetItem(last.data, "voltage_steps",
                             Append(last.data["voltage_steps"],
                                    data["voltage_steps"][Len(data["voltage_steps"])]))
        \/ /\ DispatchState = "data_output"
           /\ Len(data["output_data"]) = Len(last.data["output_data"]) + 1
           /\ data = SetItem(last.data, "output_data",
                             Append(last.data["output_data"],
                                    data["output_data"][Len(data["output_data"])]))

C15_Witness ==
    /\ LineStep /\ channel = "swo" /\ last.state = "voltage_steps"
    /\ last.line = "Voltage Step: -190mV"
    /\ "Param_A" \in DOMAIN data["params"]
    /\ last.data["voltage_steps"] = << F(250, 0) >>
    /\ data["voltage_steps"] = << F(250, 0), F(-190, 0) >>
    /\ data["params"] = last.data["params"]

\* the order of the phases within a run
PhaseRank(st) ==
    CASE st = "waiting_for_data" -> 0
      [] st = "parsing_params" -> 1
      [] st = "voltage_steps" -> 2
      [] st = "data_output" -> 3
      [] OTHER -> 4

\* C16: the state is waiting_for_data initially.  A step changes the state
\* only by parsing a line, and only in these ways: a 'Device Name:' line
\* leads to parsing_params; 'Voltage Steps:' leads from parsing_params to
\* voltage_steps; 'Data Output:', or on the BLE channel an 'index:' line,
\* leads from voltage_steps to data_output; on the SWO channel a line with
\* the end-of-test marker leads to waiting_for_data.  Otherwise the state
\* never moves to an earlier phase, and waiting_for_data is left only by a
\* 'Device Name:' line.
C16_StateTransitionGraph ==
    /\ last.kind = "init" => state = "waiting_for_data"
    /\ state # last.state =>
           /\ LineStep
           /\ \/ IsDeviceNameLine(last.line) /\ state = "parsing_params"
              \/ /\ last.state = "parsing_params" /\ state = "voltage_steps"
                 /\ StartsWith(last.line, "Voltage Steps:")
              \/ /\ last.state = "voltage_steps" /\ state = "data_output"
                 /\ \/ StartsWith(last.line, "Data Output:")
                    \/ channel = "ble" /\ StartsWith(last.line, "index:")
              \/ /\ channel = "swo" /\ state = "waiting_for_data"
                 /\ Contains(last.line, EndMarker)
    /\ (PhaseRank(state) < PhaseRank(last.state)) => WholesaleReset
    /\ (last.state = "waiting_for_data" /\ state # "waiting_for_data") =>
           IsDeviceNameLine(last.line)

C16_Witness ==
    /\ LineStep /\ channel = "swo"
    /\ last.state = "voltage_steps" /\ last.line = "Data Output:"
    /\ state = "data_output"
    /\ Len(data["voltage_steps"]) = 2

\* C17: in state data_output, on both channels, the lines 'index: 3, 1.25'
\* and 'index: 3, 1.25, 7' append exactly the pair (3, 1.25) to output_data,
\* the third field being ignored; the lines 'index: 3' (no comma),
\* 'index: x, 1.25' (index not an integer) and 'index: 3, abc' (value not a
\* number) append nothing.  No 'index:' line changes another field or the
\* state, writes a record out or raises.
C17_OutputSampleExtraction ==
    (LineStep /\ last.state = "data_output" /\ StartsWith(last.line, "index:")) =>
        /\ state = "data_output"
        /\ last.emits = << >>
        /\ last.exc = "none"
        /\ IF last.line \in {"index: 3, 1.25", "index: 3, 1.25, 7"}
           THEN data = SetItem(last.data, "output_data",
                               Append(last.data["output_data"], << 3, F(125, 2) >>))
           ELSE /\ last.line \in {"index: 3", "index: x, 1.25", "index: 3, abc"}
                /\ data = last.data

C17_Witness ==
    /\ LineStep /\ channel = "swo" /\ last.state = "data_output"
    /\ last.line = "index: 3, 1.25, 7"
    /\ Len(last.data["output_data"]) = 1
    /\ data["output_data"] = << << 3, F(125, 2) >>, << 3, F(125, 2) >> >>

\* C18: on the SWO channel a line that starts with '[I]' leaves the state and
\* the whole record as they were, writes nothing out and raises nothing, in
\* every state and whatever follows the prefix: parameter, voltage-step,
\* index or end-of-test marker text.
C18_SystemLogSkipped ==
    (LineStep /\ channel = "swo" /\ StartsWith(last.line, "[I]")) =>
        /\ state = last.state
        /\ data = last.data
        /\ last.emits = << >>
        /\ last.exc = "none"
        /\ run_saved = last.run_saved
        /\ pc = "running"

C18_Witness ==
    /\ LineStep /\ channel = "swo"
    /\ last.line = "[I] " \o EndMarker
    /\ last.state = "data_output"
    /\ Len(last.data["output_data"]) = 2
    /\ state = "data_output" /\ data = last.data

(***************************************************************************)
(* Failure of the source.                                                  *)
(***************************************************************************)
\* C19: when the source fails (the BLE client raises, or reading the SWO
\* subprocess raises), a savable pending record is written out by the step
\* that ends main, and main ends by passing the failure on to its caller
\* rather than by returning.
C19_TransportFailureHandling ==
    last.kind = "error" =>
        /\ Savable(last.data) => last.emits = << RecordOf(last.data) >>
        /\ pc = "raised"

(***************************************************************************)
(* The BLE wrapper on the asyncio event loop.  One thread runs main and    *)
(* the notification callbacks; a coroutine gives the thread up only at an  *)
(* await.  loop.running is "none" when the thread is free, "handler" or    *)
(* "main" while that code runs, "handler_save" or "main_save" while it is  *)
(* inside save_data_and_plots.  last and run_saved are not kept here.      *)
(***************************************************************************)
\* variant: the sink is awaited, so the thread is given up while it writes
YieldsDuringSave_awaited == TRUE

\* save_data_and_plots is a plain function called without await, lines
\* 38 and 341: the thread is not given up while it writes
YieldsDuringSave == FALSE

AsyncLines ==
    << "Device Name: X", "Voltage Steps:", "index: 3, 1.25",
       "Device Name: Y", "Voltage Steps:", "index: 3, 1.25", "hello" >>

AsyncStream == JoinLines(AsyncLines)

InitAsync ==
    /\ InitProgram
    /\ channel = "ble"
    /\ stream = AsyncStream
    /\ pending = stream

Connected == loop.main_at \in {"await_stdin", "await_read", "await_disconnect"}

\* the length of the first two lines of text
TwoLinesLen(text) ==
    LET n == ReadLineLen(text)
    IN  n + ReadLineLen(SubSeq(text, n + 1, Len(text)))

\* the transport hands the next notification to the loop: the next line of
\* the stream, or the next two
AsyncDeliver(n) ==
    /\ pc = "running" /\ Connected
    /\ pending # "" /\ n \in {ReadLineLen(pending), TwoLinesLen(pending)}
    /\ Len(loop.queue) < MaxQueue
    /\ loop' = [loop EXCEPT !.queue = Append(@, SubSeq(pending, 1, n))]
    /\ pending' = SubSeq(pending, n + 1, Len(pending))
    /\ UNCHANGED << channel, pc, state, data, rx_buffer, user_input, run_saved,
                    sink_log, stream, calls, received, last, runs >>

\* lines 261-273: the loop calls notification_handler with the oldest
\* waiting notification; the chunk is decoded and joins the buffer
AsyncHandlerStart ==
    /\ pc = "running" /\ loop.running = "none" /\ loop.queue # << >>
    /\ \E chunk \in {Head(loop.queue)} :
           IF Utf8Valid(chunk)
           THEN /\ rx_buffer' = rx_buffer \o Utf8Text(chunk)
                /\ received' = received \o Utf8Text(chunk)
                /\ loop' = [loop EXCEPT !.queue = Tail(@), !.running = "handler",
                                        !.handlers = @ + 1]
           ELSE /\ loop' = [loop EXCEPT !.queue = Tail(@)]
                /\ UNCHANGED << rx_buffer, received >>
    /\ UNCHANGED << channel, pc, state, data, user_input, run_saved, sink_log,
                    stream, pending, calls, last, runs >>

\* lines 276-279: one turn of the while loop.  When parse_line calls the
\* sink (line 38) the turn stops inside save_data_and_plots; what parse_line
\* does after the sink returns is kept with the write in progress.
AsyncHandlerLine ==
    /\ pc = "running" /\ loop.running = "handler" /\ Contains(rx_buffer, "\n")
    /\ \E p \in {SplitOnce(rx_buffer, "\n")} :
       \E line \in {Strip(p[1])} :
       \E r \in {ble_parse_line(line, state, data)} :
           /\ rx_buffer' = p[2]
           /\ IF line = ""
              THEN UNCHANGED << state, data, calls, loop >>
              ELSE /\ calls' = Append(calls, line)
                   /\ IF r.emits = << >>
                      THEN /\ state' = r.state /\ data' = r.data
                           /\ UNCHANGED loop
                      ELSE /\ UNCHANGED << state, data >>
                           /\ loop' = [loop EXCEPT
                                  !.saving = Append(@, [by |-> "handler", rec |-> r.emits[1],
                                                        state |-> r.state, data |-> r.data,
                                                        ncalls |-> Len(calls) + 1,
                                                        before |-> data]),
                                  !.running = IF YieldsDuringSave THEN "none"
                                              ELSE "handler_save"]
    /\ UNCHANGED << channel, pc, user_input, run_saved, sink_log, stream, pending,
                    received, last, runs >>

\* line 275: '\n' is no longer in rx_buffer and the handler returns
AsyncHandlerEnd ==
    /\ pc = "running" /\ loop.running = "handler" /\ ~Contains(rx_buffer, "\n")
    /\ loop' = [loop EXCEPT !.running = "none", !.handlers = @ - 1]
    /\ UNCHANGED << channel, pc, state, data, rx_buffer, user_input, run_saved,
                    sink_log, stream, pending, calls, received, last, runs >>

RemoveAt(seq, i) == SubSeq(seq, 1, i - 1) \o SubSeq(seq, i + 1, Len(seq))

\* save_data_and_plots returns: the record is on disk.  In parse_line the
\* reset of lines 41-49 follows; in main the finally block ends, line 342.
AsyncSaveEnd ==
    /\ pc = "running"
    /\ \E i \in 1..Len(loop.saving) :
       \E sv \in {loop.saving[i]} :
           /\ loop.running = IF YieldsDuringSave THEN "none" ELSE sv.by \o "_save"
           /\ sink_log' = Append(sink_log, sv.rec)
           /\ state' = sv.state
           /\ data' = sv.data
           /\ loop' = [loop EXCEPT !.saving = RemoveAt(@, i),
                                   !.running = IF sv.by = "handler" THEN "handler" ELSE "none",
                                   !.main_at = IF sv.by = "main" THEN "done" ELSE @]
           /\ pc' = IF sv.by = "main" THEN "done" ELSE pc
    /\ UNCHANGED << channel, rx_buffer, user_input, run_saved, stream, pending,
                    calls, received, last, runs >>

\* lines 308-325: main resumes from 'await run_in_executor' with the line
\* read from stdin: EOF and QUIT leave the loop and 'async with' disconnects,
\* TRIGGER awaits read_gatt_char
AsyncMainInput(cmd) ==
    /\ pc = "running" /\ loop.running = "none" /\ loop.main_at = "await_stdin"
    /\ user_input' = cmd
    /\ loop' = [loop EXCEPT !.main_at = IF cmd = "TRIGGER" THEN "await_read"
                                          ELSE "await_disconnect"]
    /\ UNCHANGED << channel, pc, state, data, rx_buffer, run_saved, sink_log, stream,
                    pending, calls, received, last, runs >>

\* lines 320-325: read_gatt_char returns or fails; main awaits stdin again
AsyncMainReadDone ==
    /\ pc = "running" /\ loop.running = "none" /\ loop.main_at = "await_read"
    /\ loop' = [loop EXCEPT !.main_at = "await_stdin"]
    /\ UNCHANGED << channel, pc, state, data, rx_buffer, user_input, run_saved,
                    sink_log, stream, pending, calls, received, last, runs >>

\* lines 282, 333-336: main is cancelled, or the client raises, at an await
\* inside 'async with', which disconnects before the except clause runs
AsyncMainInterrupted(cause) ==
    /\ pc = "running" /\ loop.running = "none"
    /\ loop.main_at \in {"await_stdin", "await_read"}
    /\ loop' = [loop EXCEPT !.main_at = "await_disconnect"]
    /\ UNCHANGED << channel, pc, state, data, rx_buffer, user_input, run_saved,
                    sink_log, stream, pending, calls, received, last, runs >>

\* the disconnect is over and main runs on into the finally block, line 337
AsyncFinallyBegin ==
    /\ pc = "running" /\ loop.running = "none" /\ loop.main_at = "await_disconnect"
    /\ loop' = [loop EXCEPT !.main_at = "finally", !.running = "main"]
    /\ UNCHANGED << channel, pc, state, data, rx_buffer, user_input, run_saved,
                    sink_log, stream, pending, calls, received, last, runs >>

\* lines 339-343: the finally block calls the sink for a pending record, or
\* ends at once
AsyncFinally ==
    /\ pc = "running" /\ loop.running = "main" /\ loop.main_at = "finally"
    /\ IF ble_finally(data) = << >>
       THEN /\ loop' = [loop EXCEPT !.main_at = "done", !.running = "none"]
            /\ pc' = "done"
       ELSE /\ loop' = [loop EXCEPT
                   !.saving = Append(@, [by |-> "main", rec |-> ble_finally(data)[1],
                                         state |-> state, data |-> data,
                                         ncalls |-> Len(calls), before |-> data]),
                   !.main_at = "finally_save",
                   !.running = IF YieldsDuringSave THEN "none" ELSE "main_save"]
            /\ pc' = pc
    /\ UNCHANGED << channel, state, data, rx_buffer, user_input, run_saved, sink_log,
                    stream, pending, calls, received, last, runs >>

NextAsync ==
    \/ \E n \in {ReadLineLen(pending), TwoLinesLen(pending)} : AsyncDeliver(n)
    \/ AsyncHandlerStart
    \/ AsyncHandlerLine
    \/ AsyncHandlerEnd
    \/ AsyncSaveEnd
    \/ \E cmd \in {"TRIGGER", "QUIT", ""} : AsyncMainInput(cmd)
    \/ AsyncMainReadDone
    \/ \E c \in {"cancelled", "error"} : AsyncMainInterrupted(c)
    \/ AsyncFinallyBegin
    \/ AsyncFinally

SpecAsync == InitAsync /\ [][NextAsync]_vars

IsPrefix(a, b) == Len(a) <= Len(b) /\ a = SubSeq(b, 1, Len(a))

\* C20: in the BLE wrapper the lines passed to parse_line are, in order, the
\* lines of the stream handed to the handler so far, and at most one call of
\* notification_handler is under way at any time; at most one write of the
\* sink is in progress, and while it is in progress no further line is
\* passed to parse_line and the record is not changed; while main is in its
\* finally block, flushing or about to, no notification_handler call is
\* under way.
C20_SerializedProcessing ==
    /\ IsPrefix(calls, AsyncLines)
    /\ loop.handlers = 0 => JoinLines(calls) = received
    /\ loop.handlers <= 1
    /\ Len(loop.saving) <= 1
    /\ \A i \in 1..Len(loop.saving) :
           /\ Len(calls) = loop.saving[i].ncalls
           /\ data = loop.saving[i].before
    /\ loop.main_at \in {"finally", "finally_save"} => loop.handlers = 0

C20_Witness ==
    /\ loop.main_at = "finally_save"
    /\ Len(loop.saving) = 1 /\ loop.saving[1].by = "main"
    /\ loop.saving[1].rec.device_name = << "Y" >>
    /\ loop.queue # << >>
    /\ Len(sink_log) = 1 /\ sink_log[1].device_name = << "X" >>

(***************************************************************************)
(* Conservation of samples in the BLE wrapper: any sequence of lines with  *)
(* named runs, then shutdown.  sink_log keeps every record written out and *)
(* runs keeps, for each 'Device Name:' line, its name and the samples that *)
(* parse_line accepted while that run was the latest.  last and run_saved  *)
(* are not kept here.                                                      *)
(***************************************************************************)
ConserveLines ==
    {"Device Name: X", "Device Name: Y", "Voltage Steps:", "Data Output:",
     "index: 0, 1.10", "index: 1, 1.15", "index: x, 1.25", EndMarker}

\* the sample an 'index:' line of ConserveLines declares
SampleOf(line) ==
    IF line = "index: 0, 1.10" THEN << 0, F(11, 1) >> ELSE << 1, F(115, 2) >>

\* parse_line accepted a sample: output_data of the same record grew
Accepted(line, d, after) ==
    /\ ~IsDeviceNameLine(line)
    /\ HasOutputData(after)
    /\ "output_data" \in DOMAIN d
    /\ Len(after["output_data"]) > Len(d["output_data"])

\* runs after a line has been parsed
RunsAfter(line, d, after) ==
    IF IsDeviceNameLine(line)
    THEN Append(runs, [name |-> DeviceNameOf(line), samples |-> << >>])
    ELSE IF Accepted(line, d, after) /\ runs # << >>
    THEN [runs EXCEPT ![Len(runs)].samples = Append(@, SampleOf(line))]
    ELSE runs

\* one notification carrying a whole line and its terminator
ConserveNotify(line) ==
    /\ channel = "ble" /\ pc = "running"
    /\ \E h \in {notification_handler(line \o "\n", rx_buffer, state, data)} :
       \E rn \in {RunsAfter(line, data, h.data)} :
           /\ WithinBounds(h.data)
           /\ Len(rn) <= MaxRuns
           /\ rx_buffer' = h.rx_buffer
           /\ state' = h.state
           /\ data' = h.data
           /\ sink_log' = sink_log \o h.emits
           /\ runs' = rn
    /\ UNCHANGED << channel, pc, user_input, run_saved, stream, pending, calls,
                    received, loop, last >>

\* lines 309-343: the command loop ends, or main is cancelled or the client
\* raises; the finally block runs and main returns
ConserveStop(cause) ==
    /\ channel = "ble" /\ pc = "running"
    /\ sink_log' = sink_log \o ble_finally(data)
    /\ pc' = "done"
    /\ user_input' = IF cause = "quit" THEN "QUIT" ELSE ""
    /\ UNCHANGED << channel, state, data, rx_buffer, run_saved, stream, pending,
                    calls, received, loop, runs, last >>

InitConserve == InitProgram /\ channel = "ble" /\ stream = "" /\ pending = ""

NextConserve ==
    \/ \E l \in ConserveLines : ConserveNotify(l)
    \/ \E c \in StopKinds : ConserveStop(c)

SpecConserve == InitConserve /\ [][NextConserve]_vars

\* name and samples of the records written out, in order
EmittedRuns ==
    [i \in 1..Len(sink_log) |->
        [name |-> sink_log[i].device_name, samples |-> sink_log[i].output_data]]

\* name and samples of the runs of rs that accepted at least one sample
RunsWithSamples(rs) ==
    LET kept == SelectSeq(rs, LAMBDA r : r.samples # << >>)
    IN  [i \in 1..Len(kept) |-> [name |-> << kept[i].name >>, samples |-> kept[i].samples]]

\* C21: in the BLE wrapper, for line sequences whose 'Device Name:' lines
\* all carry a name: after shutdown the records written out are exactly the
\* runs that accepted a sample, one record per run, in order, each under the
\* name of its 'Device Name:' line and holding that run's accepted samples
\* once each in arrival order.  Before shutdown the same holds of the runs
\* already closed, and the samples of the open run are the pending record's.
C21_SampleConservation ==
    /\ runs = << >> => (sink_log = << >> /\ ~HasOutputData(data))
    /\ pc = "done" => EmittedRuns = RunsWithSamples(runs)
    /\ (pc = "running" /\ runs # << >>) =>
           /\ EmittedRuns = RunsWithSamples(SubSeq(runs, 1, Len(runs) - 1))
           /\ data["device_name"] = << runs[Len(runs)].name >>
           /\ data["output_data"] = runs[Len(runs)].samples

C21_Witness ==
    /\ pc = "done" /\ user_input = "QUIT"
    /\ Len(runs) = 2
    /\ runs[1] = [name |-> "X", samples |-> << << 0, F(11, 1) >>, << 1, F(115, 2) >> >>]
    /\ runs[2] = [name |-> "Y", samples |-> << << 1, F(115, 2) >> >>]
    /\ Len(sink_log) = 2
    /\ sink_log[2].output_data = << << 1, F(115, 2) >> >>

(***************************************************************************)
(* Invariants of state and record, over Spec.                              *)
(***************************************************************************)
\* the field of the record is present and not empty
NonEmptyField(d, key) == key \in DOMAIN d /\ d[key] # << >>

\* C22: on both channels, after every step, output_data non-empty implies
\* state data_output, voltage_steps non-empty implies state voltage_steps or
\* data_output, and params non-empty implies a state other than
\* waiting_for_data; in state waiting_for_data the record holds no params,
\* no voltage steps and no samples.
C22_RecordStateCoupling ==
    /\ NonEmptyField(data, "output_data") => state = "data_output"
    /\ NonEmptyField(data, "voltage_steps") => state \in {"voltage_steps", "data_output"}
    /\ NonEmptyField(data, "params") => state # "waiting_for_data"
    /\ state = "waiting_for_data" =>
           data \in {EmptyDict, NewRecord(None)}

C22_Witness ==
    /\ channel = "swo" /\ state = "data_output"
    /\ Len(data["output_data"]) = 2
    /\ Len(data["voltage_steps"]) = 1
    /\ "Param_A" \in DOMAIN data["params"]
    /\ LineStep /\ last.line = "hello"

ParserStates == {"waiting_for_data", "parsing_params", "voltage_steps", "data_output"}

\* C23: on both channels the parser state, after every step and before
\* every line, is one of waiting_for_data, parsing_params, voltage_steps and
\* data_output; in every reachable state of the SWO logger, whatever line
\* comes next, parse_line returns one of these four, so main never sees
\* 'finished' and its save-and-reset branch is never taken.
C23_StateDomain ==
    /\ state \in ParserStates
    /\ last.state \in ParserStates
    /\ (channel = "swo" /\ pc = "running") =>
           \A l \in Lines : swo_parse_line(l, state, data).state \in ParserStates
    /\ (channel = "ble" /\ pc = "running") =>
           \A l \in Lines : ble_parse_line(l, state, data).state \in ParserStates

C23_Witness ==
    /\ LineStep /\ channel = "swo" /\ last.line = EndMarker
    /\ last.state = "data_output"
    /\ last.data["device_name"] = << "Y" >>
    /\ Len(last.data["output_data"]) = 1
    /\ last.emits # << >>
    /\ state = "waiting_for_data" /\ pc = "running"
====
